---- MODULE Spec2Model ----
(***************************************************************************)
(* Data-access layer of the campus delivery bot (src/database.py): the     *)
(* Database object with its connection pool, the users and orders tables   *)
(* created by _create_tables, and the user and order methods, called by    *)
(* interleaved callers.  Every method body holds one statement, which the  *)
(* database executes atomically, so every method is one action; the only   *)
(* interleaving is between a caller's get_next_order_number and its        *)
(* create_order.  The database is reachable: network faults and timeouts   *)
(* are not modelled.                                                       *)
(*                                                                         *)
(* Money: a float argument is written in thousandths (25500 is 25.5, 125   *)
(* is 0.125); the column balance DECIMAL(10,2) stores hundredths.          *)
(***************************************************************************)
EXTENDS Integers, Sequences, FiniteSets, TLC

\* ---------------------------------------------------------------- bounds
MaxId == 2          \* telegram ids are 1..MaxId
MaxOrders == 2      \* no order is stored once MaxOrders rows are stored

TelegramIds == 1..MaxId
Callers == {"c1", "c2"}
\* float arguments for balances, in thousandths: 0.125 and 25.5
BalanceInputs == {125, 25500}
Names == {"Alice"}

None == "None"      \* Python's None, SQL NULL

VARIABLES
    dbUrl,      \* config.SUPABASE_DB_URL is set (TRUE) or absent (FALSE)
    pool,       \* self.pool: None, or "Pool" once create_pool returned
    poolClosed, \* the pool object's own closed flag
    users,      \* table users: rows [telegram_id, name, balance (hundredths)]
    orders,     \* table orders: rows in insertion order
    held,       \* per caller: the order number it got and has not used yet
    ret         \* the last call: its name, what it returned or raised, and
                \* for close and the order methods what it was called with

vars == <<dbUrl, pool, poolClosed, users, orders, held, ret>>

\* ------------------------------------------------------------ conversions

\* variant: the value is cut to hundredths instead of rounded
ToDecimalTruncate(mills) == mills \div 10

\* DECIMAL(10,2): a value in thousandths rounded to hundredths, half away
\* from zero (inputs are non-negative)
ToDecimal2(mills) == (mills + 5) \div 10

\* float(balance): a DECIMAL(10,2) value back as a float, in thousandths
ToFloat(cents) == cents * 10

Digit(d) == <<"0", "1", "2", "3", "4", "5", "6", "7", "8", "9">>[d + 1]

RECURSIVE DecStr(_)
DecStr(n) == IF n < 10 THEN Digit(n) ELSE DecStr(n \div 10) \o Digit(n % 10)

RECURSIVE ZeroPad(_, _)
ZeroPad(s, width) == IF Len(s) >= width THEN s ELSE ZeroPad("0" \o s, width)

\* f"ORD-{count + 1:06d}"
FormatOrderNumber(n) == "ORD-" \o ZeroPad(DecStr(n), 6)

\* ------------------------------------------------------------------ pool

\* self.pool.acquire(): AttributeError on None, InterfaceError on a closed
\* pool, a connection otherwise
AcquireError ==
    IF pool = None THEN "AttributeError"
    ELSE IF poolClosed THEN "InterfaceError"
    ELSE None

\* the lifecycle state the pool is in
PoolState ==
    IF pool = None THEN "uninitialized"
    ELSE IF poolClosed THEN "closed"
    ELSE "open"

Ret(op, arg, val, exc) == [op |-> op, arg |-> arg, val |-> val, exc |-> exc]

Init ==
    /\ dbUrl \in BOOLEAN
    /\ pool = None
    /\ poolClosed = FALSE
    /\ users = {}
    /\ orders = <<>>
    /\ held = [c \in Callers |-> None]
    /\ ret = Ret("__init__", None, None, None)

\* initialize(): ValueError without the URL; else a new pool, and
\* _create_tables, whose CREATE ... IF NOT EXISTS leave the rows alone
Initialize ==
    /\ \/ /\ ~dbUrl
          /\ ret' = Ret("initialize", None, None, "ValueError")
          /\ UNCHANGED <<pool, poolClosed>>
       \/ /\ dbUrl
          /\ pool' = "Pool"
          /\ poolClosed' = FALSE
          /\ ret' = Ret("initialize", None, None, None)
    /\ UNCHANGED <<dbUrl, users, orders, held>>

\* variant: close() without the test of self.pool
CloseUnguarded ==
    /\ \/ /\ pool = None
          /\ ret' = Ret("close", PoolState, FALSE, "AttributeError")
          /\ UNCHANGED poolClosed
       \/ /\ pool # None
          /\ poolClosed' = TRUE
          /\ ret' = Ret("close", PoolState, TRUE, None)
    /\ UNCHANGED <<dbUrl, pool, users, orders, held>>

\* close(): if self.pool: await self.pool.close(); self.pool is not reset.
\* arg is the lifecycle state at the call, val tells whether pool.close()
\* was called (on a closed pool it returns at once).
Close ==
    /\ \/ /\ pool = None
          /\ ret' = Ret("close", PoolState, FALSE, None)
          /\ UNCHANGED poolClosed
       \/ /\ pool # None
          /\ poolClosed' = TRUE
          /\ ret' = Ret("close", PoolState, TRUE, None)
    /\ UNCHANGED <<dbUrl, pool, users, orders, held>>

\* ----------------------------------------------------------------- users

\* the rows of users WHERE telegram_id = $1
UserRows(telegram_id) == {u \in users : u.telegram_id = telegram_id}

\* variant: the test of the fetched value is inverted (result is None)
IsUserAuthorizedInverted(telegram_id) == UserRows(telegram_id) = {}

\* conn.fetchval("SELECT 1 FROM users WHERE telegram_id = $1") is not None
IsUserAuthorizedResult(telegram_id) == UserRows(telegram_id) # {}

\* conn.fetchval("SELECT balance ...") is None without a row; then
\* float(balance) if balance else 0.0
GetUserBalanceResult(telegram_id) ==
    IF UserRows(telegram_id) = {} THEN 0
    ELSE LET balance == (CHOOSE u \in UserRows(telegram_id) : TRUE).balance
         IN  IF balance = 0 THEN 0 ELSE ToFloat(balance)

\* UPDATE users SET balance = $1 WHERE telegram_id = $2
UpdateBalanceRows(telegram_id, new_balance) ==
    {IF u.telegram_id = telegram_id
     THEN [u EXCEPT !.balance = ToDecimal2(new_balance)]
     ELSE u : u \in users}

\* variant: users without its primary key
UserKeyNeverTaken(telegram_id) == FALSE

\* PRIMARY KEY (telegram_id): the insert is refused when the key is stored
UserKeyTaken(telegram_id) == UserRows(telegram_id) # {}

IsUserAuthorized(telegram_id) ==
    /\ \/ /\ AcquireError # None
          /\ ret' = Ret("is_user_authorized", None, None, AcquireError)
       \/ /\ AcquireError = None
          /\ ret' = Ret("is_user_authorized", None,
                        IsUserAuthorizedResult(telegram_id), None)
    /\ UNCHANGED <<dbUrl, pool, poolClosed, users, orders, held>>

GetUserBalance(telegram_id) ==
    /\ \/ /\ AcquireError # None
          /\ ret' = Ret("get_user_balance", None, None, AcquireError)
       \/ /\ AcquireError = None
          /\ ret' = Ret("get_user_balance", None,
                        GetUserBalanceResult(telegram_id), None)
    /\ UNCHANGED <<dbUrl, pool, poolClosed, users, orders, held>>

UpdateUserBalance(telegram_id, new_balance) ==
    /\ \/ /\ AcquireError # None
          /\ ret' = Ret("update_user_balance", None, None, AcquireError)
          /\ UNCHANGED users
       \/ /\ AcquireError = None
          /\ users' = UpdateBalanceRows(telegram_id, new_balance)
          /\ ret' = Ret("update_user_balance", None, None, None)
    /\ UNCHANGED <<dbUrl, pool, poolClosed, orders, held>>

\* variant: the INSERT leaves the balance to the column's DEFAULT 0.00
AddUserDefaultBalance(telegram_id, name, initial_balance) ==
    /\ \/ /\ AcquireError # None
          /\ ret' = Ret("add_user", None,
                        <<FALSE, AcquireError>>, None)
          /\ UNCHANGED users
       \/ /\ AcquireError = None
          /\ UserKeyTaken(telegram_id)
          /\ ret' = Ret("add_user", None,
                        <<FALSE, "User already exists">>, None)
          /\ UNCHANGED users
       \/ /\ AcquireError = None
          /\ ~UserKeyTaken(telegram_id)
          /\ users' = users \cup {[telegram_id |-> telegram_id, name |-> name,
                                   balance |-> 0]}
          /\ ret' = Ret("add_user", None,
                        <<TRUE, "User added successfully">>, None)
    /\ UNCHANGED <<dbUrl, pool, poolClosed, orders, held>>

\* add_user never raises: UniqueViolationError becomes "User already exists",
\* any other exception (the pool's included) becomes its text
AddUser(telegram_id, name, initial_balance) ==
    /\ \/ /\ AcquireError # None
          /\ ret' = Ret("add_user", None,
                        <<FALSE, AcquireError>>, None)
          /\ UNCHANGED users
       \/ /\ AcquireError = None
          /\ UserKeyTaken(telegram_id)
          /\ ret' = Ret("add_user", None,
                        <<FALSE, "User already exists">>, None)
          /\ UNCHANGED users
       \/ /\ AcquireError = None
          /\ ~UserKeyTaken(telegram_id)
          /\ users' = users \cup {[telegram_id |-> telegram_id, name |-> name,
                                   balance |-> ToDecimal2(initial_balance)]}
          /\ ret' = Ret("add_user", None,
                        <<TRUE, "User added successfully">>, None)
    /\ UNCHANGED <<dbUrl, pool, poolClosed, orders, held>>

\* ---------------------------------------------------------------- orders

\* variant: the count is not incremented
NextOrderNumberFromCount == FormatOrderNumber(Len(orders))

\* SELECT COUNT(*) FROM orders, then f"ORD-{count + 1:06d}"
NextOrderNumberResult == FormatOrderNumber(Len(orders) + 1)

\* variant: orders without the unique index on order_number
OrderNumberNeverTaken(order_number) == FALSE

\* order_number TEXT UNIQUE: some stored row has this order_number
OrderNumberTaken(order_number) ==
    \E i \in DOMAIN orders : orders[i].order_number = order_number

\* variant: orders without the foreign key
UserNeverMissing(telegram_id) == FALSE

\* telegram_id REFERENCES users(telegram_id): no row of users has this key
UserMissing(telegram_id) == UserRows(telegram_id) = {}

\* variant: only the foreign key is enforced
InsertOrderErrorFkOnly(telegram_id, order_number) ==
    IF UserMissing(telegram_id) THEN "ForeignKeyViolationError" ELSE None

\* The error of the INSERT INTO orders.  The unique index is checked as the
\* row is inserted, the foreign key at the end of the statement, so a row
\* that breaks both is refused for its order_number.
InsertOrderError(telegram_id, order_number) ==
    IF OrderNumberTaken(order_number) THEN "UniqueViolationError"
    ELSE IF UserMissing(telegram_id) THEN "ForeignKeyViolationError"
    ELSE None

\* caller c asks for a number and keeps it for its create_order
GetNextOrderNumber(c) ==
    /\ held[c] = None
    /\ \/ /\ AcquireError # None
          /\ ret' = Ret("get_next_order_number", c, None, AcquireError)
          /\ UNCHANGED held
       \/ /\ AcquireError = None
          /\ held' = [held EXCEPT ![c] = NextOrderNumberResult]
          /\ ret' = Ret("get_next_order_number", c, NextOrderNumberResult, None)
    /\ UNCHANGED <<dbUrl, pool, poolClosed, users, orders>>

\* variant: a stored order also debits the user's balance
CreateOrderDebits(c, telegram_id) ==
    /\ held[c] # None
    /\ held' = [held EXCEPT ![c] = None]
    /\ \/ /\ AcquireError # None
          /\ ret' = Ret("create_order", <<c, telegram_id, held[c]>>, None,
                        AcquireError)
          /\ UNCHANGED <<orders, users>>
       \/ /\ AcquireError = None
          /\ InsertOrderError(telegram_id, held[c]) # None
          /\ ret' = Ret("create_order", <<c, telegram_id, held[c]>>, None,
                        InsertOrderError(telegram_id, held[c]))
          /\ UNCHANGED <<orders, users>>
       \/ /\ AcquireError = None
          /\ InsertOrderError(telegram_id, held[c]) = None
          /\ Len(orders) < MaxOrders
          /\ orders' = Append(orders, [telegram_id |-> telegram_id,
                                       order_number |-> held[c]])
          /\ users' = {IF u.telegram_id = telegram_id /\ u.balance > 0
                       THEN [u EXCEPT !.balance = u.balance - 1]
                       ELSE u : u \in users}
          /\ ret' = Ret("create_order", <<c, telegram_id, held[c]>>, None, None)
    /\ UNCHANGED <<dbUrl, pool, poolClosed>>

\* caller c calls create_order with the number it holds; no exception is
\* caught, and the number is spent whatever the outcome
CreateOrder(c, telegram_id) ==
    /\ held[c] # None
    /\ held' = [held EXCEPT ![c] = None]
    /\ \/ /\ AcquireError # None
          /\ ret' = Ret("create_order", <<c, telegram_id, held[c]>>, None,
                        AcquireError)
          /\ UNCHANGED orders
       \/ /\ AcquireError = None
          /\ InsertOrderError(telegram_id, held[c]) # None
          /\ ret' = Ret("create_order", <<c, telegram_id, held[c]>>, None,
                        InsertOrderError(telegram_id, held[c]))
          /\ UNCHANGED orders
       \/ /\ AcquireError = None
          /\ InsertOrderError(telegram_id, held[c]) = None
          /\ Len(orders) < MaxOrders
          /\ orders' = Append(orders, [telegram_id |-> telegram_id,
                                       order_number |-> held[c]])
          /\ ret' = Ret("create_order", <<c, telegram_id, held[c]>>, None, None)
    /\ UNCHANGED <<dbUrl, pool, poolClosed, users>>

Next ==
    \/ Initialize
    \/ Close
    \/ \E id \in TelegramIds : IsUserAuthorized(id)
    \/ \E id \in TelegramIds : GetUserBalance(id)
    \/ \E id \in TelegramIds, b \in BalanceInputs : UpdateUserBalance(id, b)
    \/ \E id \in TelegramIds, n \in Names, b \in BalanceInputs : AddUser(id, n, b)
    \/ \E c \in Callers : GetNextOrderNumber(c)
    \/ \E c \in Callers, id \in TelegramIds : CreateOrder(c, id)

Spec == Init /\ [][Next]_vars

\* ================================================================ claims

Open == AcquireError = None

\* the first order numbers, written out
Expected ==
    <<"ORD-000001", "ORD-000002", "ORD-000003", "ORD-000004", "ORD-000005",
      "ORD-000006", "ORD-000007", "ORD-000008", "ORD-000009", "ORD-000010">>

\* a float with three decimals as get_user_balance gives it back after it was
\* stored: rounded to two decimals (0.125 comes back as 0.13)
StoredAs(b) == CASE b = 125 -> 130 [] OTHER -> b

\* C1: when two callers hold the same order number (both called
\* get_next_order_number before either called create_order) and one of them
\* creates its order successfully, the other still holds that number, which
\* is now stored; and a create_order with a stored number raises
\* UniqueViolationError and stores nothing.
C1_RaceSecondInsertFails ==
    [][\A c \in Callers, id \in TelegramIds :
        /\ \A d \in Callers \ {c} :
              (ret'.op = "create_order" /\ held[c] # None /\ held[d] = held[c]
                  /\ CreateOrder(c, id) /\ ret'.exc = None)
              => /\ held'[d] = held[c]
                 /\ \E i \in DOMAIN orders' : orders'[i].order_number = held'[d]
                 /\ Len(orders') = Len(orders) + 1
        /\ (ret'.op = "create_order" /\ Open /\ CreateOrder(c, id)
              /\ \E i \in DOMAIN orders : orders[i].order_number = held[c])
           => ret'.exc = "UniqueViolationError" /\ orders' = orders]_vars

\* the second caller of a race was refused: its number, the first one, is
\* the number of the only stored order
C1_Witness ==
    /\ ret.op = "create_order"
    /\ ret.exc = "UniqueViolationError"
    /\ ret.arg[1] = "c2"
    /\ ret.arg[3] = "ORD-000001"
    /\ Len(orders) = 1
    /\ orders[1].order_number = "ORD-000001"

NoDuplicateOrderNumbers ==
    \A i, j \in DOMAIN orders :
        i # j => orders[i].order_number # orders[j].order_number

\* C2: create_order with a stored order_number raises UniqueViolationError
\* and leaves the orders unchanged; no two stored orders ever share an
\* order_number.
C2_OrderNumberUnique ==
    /\ []NoDuplicateOrderNumbers
    /\ [][\A c \in Callers, id \in TelegramIds :
            (ret'.op = "create_order" /\ Open /\ CreateOrder(c, id)
               /\ \E i \in DOMAIN orders : orders[i].order_number = held[c])
            => ret'.exc = "UniqueViolationError" /\ orders' = orders]_vars

\* a create_order for an existing user was refused for its order number
C2_Witness ==
    /\ ret.op = "create_order"
    /\ ret.exc = "UniqueViolationError"
    /\ \E u \in users : u.telegram_id = ret.arg[2]
    /\ Len(orders) = 2
    /\ \E i \in DOMAIN orders : orders[i].order_number = ret.arg[3]

OrdersReferenceUsers ==
    \A i \in DOMAIN orders : \E u \in users : u.telegram_id = orders[i].telegram_id

\* C3 as stated: create_order for a telegram_id without a User row raises a
\* foreign-key error and stores nothing, and every stored order's
\* telegram_id is that of a User row.
C3_Original ==
    /\ []OrdersReferenceUsers
    /\ [][\A c \in Callers, id \in TelegramIds :
            (ret'.op = "create_order" /\ Open /\ CreateOrder(c, id)
               /\ ~\E u \in users : u.telegram_id = id)
            => ret'.exc = "ForeignKeyViolationError" /\ orders' = orders]_vars

\* C3 amended: create_order for a telegram_id without a User row raises and
\* stores nothing: a foreign-key error when its order_number is not stored
\* yet, a uniqueness error when it is; every stored order's telegram_id is
\* that of a User row.
C3_UnknownUserRefused ==
    /\ []OrdersReferenceUsers
    /\ [][\A c \in Callers, id \in TelegramIds :
            (ret'.op = "create_order" /\ Open /\ CreateOrder(c, id)
               /\ ~\E u \in users : u.telegram_id = id)
            => /\ orders' = orders
               /\ ret'.exc =
                    IF \E i \in DOMAIN orders : orders[i].order_number = held[c]
                    THEN "UniqueViolationError"
                    ELSE "ForeignKeyViolationError"]_vars

\* a create_order was refused for its telegram_id while another user exists
C3_Witness ==
    /\ ret.op = "create_order"
    /\ ret.exc = "ForeignKeyViolationError"
    /\ ~\E u \in users : u.telegram_id = ret.arg[2]
    /\ users # {}
    /\ Len(orders) = 1

OneRowPerTelegramId ==
    \A u, v \in users : u.telegram_id = v.telegram_id => u = v

\* C4: on an open pool, add_user with a telegram_id that has a User row
\* returns (False, "User already exists"), raises nothing and leaves the
\* users unchanged; there is never more than one User row per telegram_id.
C4_AddUserTwice ==
    /\ []OneRowPerTelegramId
    /\ [][\A id \in TelegramIds, n \in Names, b \in BalanceInputs :
            (ret'.op = "add_user" /\ Open /\ AddUser(id, n, b)
               /\ \E u \in users : u.telegram_id = id)
            => /\ ret'.val = <<FALSE, "User already exists">>
               /\ ret'.exc = None
               /\ users' = users]_vars

\* add_user was refused for user 1, the only user, whose balance is 0.13
C4_Witness ==
    /\ ret.op = "add_user"
    /\ \A u \in users : u.telegram_id = 1
    /\ ret.val = <<FALSE, "User already exists">>
    /\ \E u \in users : u.telegram_id = 1 /\ u.balance = 13

\* C5: get_next_order_number returns "ORD-" and the number of stored orders
\* plus one on six digits ("ORD-000001" without orders, "ORD-000002" with
\* one), and the k-th stored order has number k.
C5_SequentialNumbers ==
    /\ (ret.op = "get_next_order_number" /\ ret.exc = None)
         => ret.val = Expected[Len(orders) + 1]
    /\ \A k \in DOMAIN orders : orders[k].order_number = Expected[k]
    /\ FormatOrderNumber(10) = "ORD-000010"
    /\ FormatOrderNumber(4321) = "ORD-004321"
    /\ FormatOrderNumber(999999) = "ORD-999999"

\* a caller got "ORD-000003" after two orders were created
C5_Witness ==
    /\ ret.op = "get_next_order_number"
    /\ ret.val = "ORD-000003"
    /\ Len(orders) = 2
\* C6 as stated: a close() called before any initialize() or after an
\* earlier close() raises nothing and does not call the pool's close.
C6_Original ==
    (ret.op = "close" /\ ret.arg \in {"uninitialized", "closed"})
        => ret.exc = None /\ ret.val = FALSE

\* C6 amended: close() never raises and changes neither self.pool nor the
\* tables; before any initialize() it does not touch the pool; after an
\* earlier close() self.pool is still set, so it calls the pool's close
\* again, and the pool stays closed.
C6_CloseAnyState ==
    /\ [](ret.op = "close" =>
            /\ ret.exc = None
            /\ ret.arg = "uninitialized" => (ret.val = FALSE /\ pool = None)
            /\ ret.arg \in {"open", "closed"} =>
                 (ret.val = TRUE /\ pool # None /\ poolClosed))
    /\ [][Close => UNCHANGED <<pool, users, orders, held>>]_vars

\* close() was called on a pool that an earlier close() had closed, with a
\* user stored
C6_Witness ==
    /\ ret.op = "close"
    /\ ret.arg = "closed"
    /\ users # {}

\* C7 as stated: on an open pool update_user_balance(id, b) for an existing
\* user makes get_user_balance(id) return b and changes no other row; for an
\* id without a row it raises nothing, changes no row and creates no user.
C7_Original ==
    [][\A id \in TelegramIds, b \in BalanceInputs :
        (ret'.op = "update_user_balance" /\ Open /\ UpdateUserBalance(id, b))
        => /\ ret'.exc = None
           /\ (\E u \in users : u.telegram_id = id)
                => /\ GetUserBalanceResult(id)' = b
                   /\ {u \in users' : u.telegram_id # id}
                        = {u \in users : u.telegram_id # id}
           /\ (~\E u \in users : u.telegram_id = id)
                => /\ users' = users
                   /\ ~IsUserAuthorizedResult(id)']_vars

\* C7 amended: as C7, but get_user_balance(id) returns b rounded to two
\* decimals, which is b when b has at most two decimals.
C7_UpdateThenGet ==
    [][\A id \in TelegramIds, b \in BalanceInputs :
        (ret'.op = "update_user_balance" /\ Open /\ UpdateUserBalance(id, b))
        => /\ ret'.exc = None
           /\ (\E u \in users : u.telegram_id = id)
                => /\ GetUserBalanceResult(id)' = StoredAs(b)
                   /\ {u \in users' : u.telegram_id # id}
                        = {u \in users : u.telegram_id # id}
           /\ (~\E u \in users : u.telegram_id = id)
                => /\ users' = users
                   /\ ~IsUserAuthorizedResult(id)']_vars

\* an update_user_balance was executed; user 1 has a balance of 25.5 and
\* user 2 one of 0.13
C7_Witness ==
    /\ ret.op = "update_user_balance"
    /\ ret.exc = None
    /\ \E u \in users : u.telegram_id = 1 /\ u.balance = 2550
    /\ \E u \in users : u.telegram_id = 2 /\ u.balance = 13

\* C8: a telegram_id has a User row only once an add_user for it succeeded;
\* on an open pool the reads for an id without a row return False and 0.0
\* and raise nothing; no read changes the users or the orders.
C8_UnknownUserDefaults ==
    [][\A id \in TelegramIds :
        /\ (~(\E u \in users : u.telegram_id = id)
              /\ ~(ret'.op = "add_user"
                   /\ \E n \in Names, b \in BalanceInputs :
                        AddUser(id, n, b) /\ ret'.val[1]))
           => ~(\E u \in users' : u.telegram_id = id)
        /\ (ret'.op = "is_user_authorized" /\ Open /\ IsUserAuthorized(id))
           => /\ ret'.exc = None /\ users' = users /\ orders' = orders
              /\ (~\E u \in users : u.telegram_id = id) => ret'.val = FALSE
        /\ (ret'.op = "get_user_balance" /\ Open /\ GetUserBalance(id))
           => /\ ret'.exc = None /\ users' = users /\ orders' = orders
              /\ (~\E u \in users : u.telegram_id = id) => ret'.val = 0]_vars

\* get_user_balance returned 0.0 for user 2, who has no row, while user 1
\* has a balance of 25.5 and an order is stored
C8_Witness ==
    /\ ret.op = "get_user_balance"
    /\ ret.exc = None
    /\ ret.val = 0
    /\ ~\E u \in users : u.telegram_id = 2
    /\ \E u \in users : u.telegram_id = 1 /\ u.balance = 2550
    /\ orders # <<>>

\* C9 as stated: after add_user(id, name, b) succeeded the user stays
\* authorized for ever, and get_user_balance(id) is b until an
\* update_user_balance(id, ..).
C9_Original ==
    [][\A id \in TelegramIds :
        /\ \A n \in Names, b \in BalanceInputs :
             (ret'.op = "add_user" /\ AddUser(id, n, b) /\ ret'.val[1])
             => IsUserAuthorizedResult(id)' /\ GetUserBalanceResult(id)' = b
        /\ (users' # users /\ IsUserAuthorizedResult(id))
           => IsUserAuthorizedResult(id)'
        /\ (users' # users /\ IsUserAuthorizedResult(id)
              /\ ~(ret'.op = "update_user_balance"
                   /\ \E b \in BalanceInputs : UpdateUserBalance(id, b)))
           => GetUserBalanceResult(id)' = GetUserBalanceResult(id)]_vars

\* C9 amended: as C9, but get_user_balance(id) is b rounded to two decimals,
\* which is b when b has at most two decimals.
C9_AddedUserStays ==
    [][\A id \in TelegramIds :
        /\ \A n \in Names, b \in BalanceInputs :
             (ret'.op = "add_user" /\ AddUser(id, n, b) /\ ret'.val[1])
             => /\ IsUserAuthorizedResult(id)'
                /\ GetUserBalanceResult(id)' = StoredAs(b)
        /\ (users' # users /\ IsUserAuthorizedResult(id))
           => IsUserAuthorizedResult(id)'
        /\ (users' # users /\ IsUserAuthorizedResult(id)
              /\ ~(ret'.op = "update_user_balance"
                   /\ \E b \in BalanceInputs : UpdateUserBalance(id, b)))
           => GetUserBalanceResult(id)' = GetUserBalanceResult(id)]_vars

\* an add_user succeeded; user 2 has a balance of 25.5
C9_Witness ==
    /\ ret.op = "add_user"
    /\ ret.val = <<TRUE, "User added successfully">>
    /\ \E u \in users : u.telegram_id = 2 /\ u.balance = 2550

\* C10: create_order and get_next_order_number leave the users table
\* unchanged whatever their outcome; a stored balance changes only in an
\* update_user_balance for its row, and a row appears only in an add_user.
C10_OrdersLeaveBalances ==
    [][/\ (/\ ret'.op \in {"create_order", "get_next_order_number"}
           /\ \/ \E c \in Callers, id \in TelegramIds : CreateOrder(c, id)
              \/ \E c \in Callers : GetNextOrderNumber(c))
          => users' = users
       /\ \A u \in users :
            u \notin users'
            => \E b \in BalanceInputs : UpdateUserBalance(u.telegram_id, b)
       /\ \A u \in users' :
            u \notin users
            => \/ \E b \in BalanceInputs : UpdateUserBalance(u.telegram_id, b)
               \/ \E n \in Names, b \in BalanceInputs :
                    AddUser(u.telegram_id, n, b)]_vars

\* a create_order succeeded for a user whose balance is 25.5
C10_Witness ==
    /\ ret.op = "create_order"
    /\ ret.exc = None
    /\ \E u \in users : u.telegram_id = ret.arg[2] /\ u.balance = 2550
    /\ orders # <<>>
====
